---------------------------- MODULE Spec2Model ----------------------------
(***************************************************************************)
(* A model of the truth-bias analysis scripts:                             *)
(*   new_analysis.py, updated_analysis.py, proportion_analysis.py          *)
(*       analyze_proportion_comparison, create_apa_table,                  *)
(*       run_comparison_set, compare_reasoning_non_reasoning_by_firm and   *)
(*       the proportion_analysis main script;                              *)
(*   stats_analysis.py, tb-data-attempt.py                                 *)
(*       rank_biserial and the Wilcoxon / Bonferroni scripts.              *)
(*                                                                         *)
(* Numbers.  A proportion is an exact rational <<num, den>> in lowest      *)
(* terms with den > 0.  A quantity under a square root is kept exact by    *)
(* its square: z = sign * sqrt(sq), and a confidence bound is              *)
(* mid + times * sqrt(se_sq).  Cohen's h and p-values are fixed            *)
(* point, in units of 1e-4, read from tables of arcsin(sqrt(.)) and of the *)
(* normal distribution, which stand for the numpy / scipy library calls.   *)
(***************************************************************************)
EXTENDS Integers, Sequences, FiniteSets, TLC

VARIABLES
    \* --- analyze_proportion_comparison, called in its three copies:
    \*     the arguments and what each copy gave
    a_p1, a_p2, a_n1, a_n2, a_np, out_new, out_updated, out_proportion,
    \* --- the proportion_analysis main script:
    \*     whether csv_path exists, the rows of the CSV file, the position of
    \*     the script, results, the exception in flight, what was printed,
    \*     the files written, whether the CSV file was read, the comparisons
    \*     that compare_reasoning_non_reasoning_by_firm completed, apa_table
    csv_exists, df, pc, results, raised, printed, files_written, csv_read,
    compared, apa_table,
    \* --- the Wilcoxon scripts stats_analysis and tb-data-attempt:
    \*     which script runs, its three samples, its position, the dictionary
    \*     of Wilcoxon results (wilcoxon_outputs / comparisons), p_values,
    \*     corrected, and the lines printed
    st_script, st_samples, st_pc, st_outputs, st_p_values, st_corrected,
    st_printed,
    \* --- create_apa_table, called in its three copies: the comparisons whose
    \*     results make up results_list, and the table each copy gave
    apa_inputs, apa_new, apa_updated, apa_proportion,
    \* --- run_comparison_set: its arguments and what it gave
    run_data_dict, run_sample_sizes, run_comparison_type, run_out,
    \* --- the effect size label, taken both ways for one |h|: abs_h, the
    \*     label of the if / elif chain and the label of the threshold list
    lb_abs_h, lb_chain, lb_lookup,
    \* --- the p-value text, made by each copy for one p: p, and the text of
    \*     new_analysis, of updated_analysis and of proportion_analysis
    fp_p, fp_new, fp_updated, fp_proportion

an_vars == <<a_p1, a_p2, a_n1, a_n2, a_np, out_new, out_updated, out_proportion>>

csv_vars == <<csv_exists, df, pc, results, raised, printed, files_written,
              csv_read, compared, apa_table>>

st_vars == <<st_script, st_samples, st_pc, st_outputs, st_p_values, st_corrected,
             st_printed>>

apa_vars == <<apa_inputs, apa_new, apa_updated, apa_proportion>>

run_vars == <<run_data_dict, run_sample_sizes, run_comparison_type, run_out>>

lb_vars == <<lb_abs_h, lb_chain, lb_lookup>>

fp_vars == <<fp_p, fp_new, fp_updated, fp_proportion>>

vars == <<an_vars, csv_vars, st_vars, apa_vars, run_vars, lb_vars, fp_vars>>

\* what the actions of one part of the program leave alone
an_others == <<csv_vars, st_vars, apa_vars, run_vars, lb_vars, fp_vars>>

csv_others == <<an_vars, st_vars, apa_vars, run_vars, lb_vars, fp_vars>>

st_others == <<an_vars, csv_vars, apa_vars, run_vars, lb_vars, fp_vars>>

apa_others == <<an_vars, csv_vars, st_vars, run_vars, lb_vars, fp_vars>>

run_others == <<an_vars, csv_vars, st_vars, apa_vars, lb_vars, fp_vars>>

lb_others == <<an_vars, csv_vars, st_vars, apa_vars, run_vars, fp_vars>>

fp_others == <<an_vars, csv_vars, st_vars, apa_vars, run_vars, lb_vars>>

---------------------------------------------------------------------------
(* Bounds of the model *)

\* proportions handed to analyze_proportion_comparison are k/PGrid, as whole percents
PGrid == 4
\* sample sizes are 1..MaxN
MaxN == 4
\* the CSV file has at most MaxRows rows
MaxRows == 3

\* besides the scripts' own data, the Wilcoxon scripts run on samples of
\* MaxPairs scores each, the scores being 0..MaxScore
MaxPairs == 2
MaxScore == 1
\* results_list has at most MaxResults results
MaxResults == 3
\* data_dict has at most MaxModels models
MaxModels == 3
---------------------------------------------------------------------------
(* Exact rational arithmetic *)

Abs(x) == IF x < 0 THEN -x ELSE x

Sgn(x) == IF x < 0 THEN -1 ELSE IF x = 0 THEN 0 ELSE 1

Min(x, y) == IF x <= y THEN x ELSE y

RECURSIVE GCD(_, _)
GCD(x, y) == IF y = 0 THEN x ELSE GCD(y, x % y)

Reduce(r) ==
    LET g == GCD(Abs(r[1]), Abs(r[2]))
        s == IF r[2] < 0 THEN -1 ELSE 1
    IN  <<(s * r[1]) \div g, (s * r[2]) \div g>>

R(x) == <<x, 1>>

RAdd(a, b) ==
    LET g == GCD(a[2], b[2])
    IN  Reduce(<<a[1] * (b[2] \div g) + b[1] * (a[2] \div g), (a[2] \div g) * b[2]>>)

RNeg(a) == <<-a[1], a[2]>>

RSub(a, b) == RAdd(a, RNeg(b))

RMul(a, b) ==
    LET g1 == GCD(Abs(a[1]), b[2])
        g2 == GCD(Abs(b[1]), a[2])
    IN  Reduce(<<(a[1] \div g1) * (b[1] \div g2), (a[2] \div g2) * (b[2] \div g1)>>)

RInv(a) == IF a[1] < 0 THEN <<-a[2], -a[1]>> ELSE <<a[2], a[1]>>

RDiv(a, b) == RMul(a, RInv(b))

RLess(a, b) == RSub(a, b)[1] < 0

RAbs(a) == <<Abs(a[1]), a[2]>>

RMin(a, b) == IF RLess(b, a) THEN b ELSE a

\* the largest r in lo..hi with r*r <= n, by bisection (lo*lo <= n < (hi+1)^2)
RECURSIVE ISqrtIn(_, _, _)
ISqrtIn(n, lo, hi) ==
    IF lo >= hi THEN lo
    ELSE LET mid == (lo + hi + 1) \div 2
         IN  IF mid * mid <= n THEN ISqrtIn(n, mid, hi) ELSE ISqrtIn(n, lo, mid - 1)

\* the largest r with r*r <= n
ISqrt(n) == ISqrtIn(n, 0, Min(n, 46340))

---------------------------------------------------------------------------
(* Library functions, by table *)

\* numpy: arcsin(sqrt(k/100)) in units of 1e-4 rad, k = 0..100
ArcsinSqrtTable ==
    <<0, 1002, 1419, 1741, 2014, 2255, 2475, 2678, 2868, 3047, 3218, 3381, 3537,
      3689, 3835, 3977, 4115, 4250, 4381, 4510, 4636, 4760, 4882, 5002, 5120,
      5236, 5351, 5464, 5576, 5687, 5796, 5905, 6013, 6119, 6225, 6331, 6435,
      6539, 6642, 6745, 6847, 6949, 7051, 7152, 7253, 7353, 7454, 7554, 7654,
      7754, 7854, 7954, 8054, 8154, 8254, 8355, 8455, 8556, 8657, 8759, 8861,
      8963, 9066, 9169, 9273, 9377, 9483, 9589, 9695, 9803, 9912, 10021, 10132,
      10244, 10357, 10472, 10588, 10706, 10826, 10948, 11071, 11198, 11326,
      11458, 11593, 11731, 11873, 12019, 12171, 12327, 12490, 12661, 12840,
      13030, 13233, 13453, 13694, 13967, 14289, 14706, 15708>>

\* np.arcsin(np.sqrt(p)) for a proportion p that is a whole percent
ArcsinSqrt(p) == ArcsinSqrtTable[((p[1] * 100) \div p[2]) + 1]

\* scipy: 2 * (1 - norm.cdf(t/10)) in units of 1e-4, t = 0..40
NormTwoSidedTable ==
    <<10000, 9203, 8415, 7642, 6892, 6171, 5485, 4839, 4237, 3681, 3173, 2713,
      2301, 1936, 1615, 1336, 1096, 891, 719, 574, 455, 357, 278, 214, 164, 124,
      93, 69, 51, 37, 27, 19, 14, 10, 7, 5, 3, 2, 1, 1, 1>>

\* 2 * (1 - stats.norm.cdf(sqrt(xsq))): the two-sided normal p-value of a
\* statistic given by its square, which is also the chi-square (1 dof) p-value
PValueOfSquare(xsq) ==
    LET t == ISqrt((xsq[1] * 100) \div xsq[2])
    IN  IF t >= 40 THEN 0 ELSE NormTwoSidedTable[t + 1]

\* Python's round(): to the nearest integer, a half to the even one
PyRound(x) ==
    LET fl   == x[1] \div x[2]
        rem2 == 2 * (x[1] - fl * x[2])
    IN  IF rem2 < x[2] THEN fl
        ELSE IF rem2 > x[2] THEN fl + 1
        ELSE IF fl % 2 = 0 THEN fl ELSE fl + 1

Exception(type) == [exception |-> type]

IsException(o) == "exception" \in DOMAIN o

\* scipy.stats.chi2_contingency on the 2x2 table <<<<a, b>>, <<c, d>>>>:
\* the statistic and its p-value, or ValueError for a negative entry or a
\* zero expected frequency
Chi2Contingency(obs, correction) ==
    LET a  == obs[1][1]
        b  == obs[1][2]
        c  == obs[2][1]
        d  == obs[2][2]
        r1 == RAdd(a, b)
        r2 == RAdd(c, d)
        c1 == RAdd(a, c)
        c2 == RAdd(b, d)
        N  == RAdd(r1, r2)
        delta == RAbs(RSub(a, RDiv(RMul(r1, c1), N)))
        magnitude == IF correction THEN RMin(<<1, 2>>, delta) ELSE R(0)
        adj   == RSub(delta, magnitude)
        chi2  == RMul(RMul(RMul(RMul(adj, adj), RDiv(N, r1)), RDiv(N, r2)),
                      RDiv(N, RMul(c1, c2)))
    IN  IF a[1] < 0 \/ b[1] < 0 \/ c[1] < 0 \/ d[1] < 0 THEN Exception("ValueError")
        ELSE IF r1[1] = 0 \/ r2[1] = 0 \/ c1[1] = 0 \/ c2[1] = 0
             THEN Exception("ValueError")
        ELSE [chi2 |-> chi2, p |-> PValueOfSquare(chi2)]

---------------------------------------------------------------------------
(* analyze_proportion_comparison: the three copies *)

\* z_critical = 1.96
ZCritical == <<49, 25>>

\* the mutant of EffectSizeChain: each threshold taken with <=
EffectSizeChainInclusive(abs_h) ==
    IF abs_h <= 2000 THEN "Negligible"
    ELSE IF abs_h <= 5000 THEN "Small"
    ELSE IF abs_h <= 8000 THEN "Medium"
    ELSE "Large"

\* new_analysis: the if / elif chain over abs_h (units of 1e-4)
EffectSizeChain(abs_h) ==
    IF abs_h < 2000 THEN "Negligible"
    ELSE IF abs_h < 5000 THEN "Small"
    ELSE IF abs_h < 8000 THEN "Medium"
    ELSE "Large"

\* updated_analysis, proportion_analysis: the threshold list, float('inf') last
effect_size_thresholds ==
    << [inf |-> FALSE, threshold |-> 2000, desc |-> "Negligible"],
       [inf |-> FALSE, threshold |-> 5000, desc |-> "Small"],
       [inf |-> FALSE, threshold |-> 8000, desc |-> "Medium"],
       [inf |-> TRUE,  threshold |-> 0,    desc |-> "Large"] >>

\* next((desc for threshold, desc in effect_size_thresholds if abs_h < threshold), "Large")
EffectSizeLookup(abs_h) ==
    LET hits == {i \in 1..Len(effect_size_thresholds) :
                    \/ effect_size_thresholds[i].inf
                    \/ abs_h < effect_size_thresholds[i].threshold}
    IN  IF hits = {} THEN "Large"
        ELSE effect_size_thresholds[CHOOSE i \in hits : \A j \in hits : i <= j].desc

\* cohens_h = 2 * (arcsin(sqrt(p1)) - arcsin(sqrt(p2))), units of 1e-4
CohensH(p1, p2) == 2 * (ArcsinSqrt(p1) - ArcsinSqrt(p2))

\* a slip in the pooled proportion: the plain mean, sample sizes ignored
PooledPUnweighted(p1, p2, n1, n2) == RDiv(RAdd(p1, p2), R(2))

\* pooled_p of new_analysis and updated_analysis: (n1*p1 + n2*p2) / (n1 + n2)
PooledPWeighted(p1, p2, n1, n2) ==
    RDiv(RAdd(RMul(R(n1), p1), RMul(R(n2), p2)), R(n1 + n2))

\* count = int(round(p * n)) of proportion_analysis
Count(p, n) == PyRound(RMul(p, R(n)))

\* pooled_p of proportion_analysis: (count1 + count2) / (n1 + n2)
PooledPCounts(p1, p2, n1, n2) == Reduce(<<Count(p1, n1) + Count(p2, n2), n1 + n2>>)

\* pooled_se squared: pooled_p * (1 - pooled_p) * (1/n1 + 1/n2)
PooledSeSq(pooled_p, n1, n2) ==
    RMul(RMul(pooled_p, RSub(R(1), pooled_p)), RAdd(<<1, n1>>, <<1, n2>>))

\* the part of the function all three copies share once pooled_p, the effect
\* size label and the chi-square table are chosen.  np: the proportions are
\* numpy scalars (read from a DataFrame), for which a division by zero gives
\* nan / inf with a warning where Python floats raise ZeroDivisionError.
AnalyzeWith(p1, p2, n1, n2, study_name, np, pooled_p, label_lookup, obs, correction) ==
    LET se_sq    == PooledSeSq(pooled_p, n1, n2)
        diff     == RSub(p1, p2)
        z_sq     == RDiv(RMul(diff, diff), se_sq)
        cohens_h == CohensH(p1, p2)
        abs_h    == Abs(cohens_h)
        chi      == Chi2Contingency(obs, correction)
    IN  IF se_sq[1] = 0 /\ ~np THEN Exception("ZeroDivisionError")
        ELSE IF IsException(chi) THEN chi
        ELSE [ study        |-> study_name,
               group1_prop  |-> p1,
               group2_prop  |-> p2,
               difference   |-> diff,
               z_statistic  |-> [sign |-> Sgn(diff[1]), sq |-> z_sq],
               p_value_z    |-> PValueOfSquare(z_sq),
               z_ci_lower   |-> [mid |-> diff, times |-> RNeg(ZCritical), se_sq |-> se_sq],
               z_ci_upper   |-> [mid |-> diff, times |-> ZCritical, se_sq |-> se_sq],
               cohens_h     |-> cohens_h,
               effect_size  |-> IF label_lookup THEN EffectSizeLookup(abs_h)
                                ELSE EffectSizeChain(abs_h),
               chi_square   |-> chi.chi2,
               p_value_chi2 |-> chi.p ]

\* the 2x2 table of new_analysis and updated_analysis: the products themselves
ObsProducts(p1, p2, n1, n2) ==
    << <<RMul(p1, R(n1)), RMul(RSub(R(1), p1), R(n1))>>,
       <<RMul(p2, R(n2)), RMul(RSub(R(1), p2), R(n2))>> >>

\* the 2x2 table of proportion_analysis: rounded counts and their complements
ObsCounts(p1, p2, n1, n2) ==
    << <<R(Count(p1, n1)), R(n1 - Count(p1, n1))>>,
       <<R(Count(p2, n2)), R(n2 - Count(p2, n2))>> >>

analyze_new(p1, p2, n1, n2, study_name, np) ==
    AnalyzeWith(p1, p2, n1, n2, study_name, np,
                PooledPWeighted(p1, p2, n1, n2), FALSE,
                ObsProducts(p1, p2, n1, n2), TRUE)

analyze_updated(p1, p2, n1, n2, study_name, np) ==
    AnalyzeWith(p1, p2, n1, n2, study_name, np,
                PooledPWeighted(p1, p2, n1, n2), TRUE,
                ObsProducts(p1, p2, n1, n2), TRUE)

analyze_proportion(p1, p2, n1, n2, study_name, np) ==
    AnalyzeWith(p1, p2, n1, n2, study_name, np,
                PooledPCounts(p1, p2, n1, n2), TRUE,
                ObsCounts(p1, p2, n1, n2), FALSE)

---------------------------------------------------------------------------
(* create_apa_table: the three copies *)

\* a formatted number is the integer of its printed digits: f"{x:.1f}" is x in
\* tenths, f"{x:.2f}" in hundredths, rounded half to even

\* f"{x:.<d>f}" of a rational, scale = 10^d
Fmt(x, scale) == PyRound(RMul(x, R(scale)))

\* f"{z:.2f}" of z = sign * sqrt(sq): the nearest hundredth
FmtZ(z) ==
    z.sign * ((ISqrt((4 * 10000 * z.sq[1]) \div z.sq[2]) + 1) \div 2)

\* f"{b*100:.1f}" of a confidence bound b = mid + times * sqrt(se_sq)
FmtBound(b) ==
    LET half_sq == RMul(RMul(RMul(b.times, b.times), R(1000000)), b.se_sq)
        half    == ISqrt(half_sq[1] \div half_sq[2])
    IN  Fmt(b.mid, 1000) + Sgn(b.times[1]) * half

\* f"{h:.2f}" of Cohen's h, held in units of 1e-4
FmtH(h) == PyRound(<<h, 100>>)

\* the mutant of format_p_value: each threshold taken with <=
FormatPInclusive(p) ==
    IF p <= 10 THEN <<"p < .001">>
    ELSE IF p <= 100 THEN <<"p < .01">>
    ELSE IF p <= 500 THEN <<"p < .05">>
    ELSE <<"p = ", PyRound(<<p, 10>>)>>

\* format_p_value of updated_analysis and proportion_analysis; p in units of 1e-4
format_p_value(p) ==
    IF p < 10 THEN <<"p < .001">>
    ELSE IF p < 100 THEN <<"p < .01">>
    ELSE IF p < 500 THEN <<"p < .05">>
    ELSE <<"p = ", PyRound(<<p, 10>>)>>

\* the inline chain of new_analysis.create_apa_table
FormatPInline(p) ==
    IF p < 10 THEN <<"p < .001">>
    ELSE IF p < 100 THEN <<"p < .01">>
    ELSE IF p < 500 THEN <<"p < .05">>
    ELSE <<"p = ", PyRound(<<p, 10>>)>>

\* the columns the three copies share
ApaRowCommon(r) ==
    [ Study          |-> r.study,
      Reasoning      |-> Fmt(r.group1_prop, 1000),
      NonReasoning   |-> Fmt(r.group2_prop, 1000),
      Difference     |-> Fmt(r.difference, 1000),
      CI             |-> <<FmtBound(r.z_ci_lower), FmtBound(r.z_ci_upper)>>,
      ZTest          |-> FmtZ(r.z_statistic),
      CohensH        |-> FmtH(r.cohens_h),
      EffectSize     |-> r.effect_size ]

ApaRowNew(r) == [col \in {"PValue"} |-> FormatPInline(r.p_value_z)] @@ ApaRowCommon(r)

ApaRowUpdated(r) == [col \in {"PValue"} |-> format_p_value(r.p_value_z)] @@ ApaRowCommon(r)

ApaRowProportion(r) ==
    [ ZPValue   |-> format_p_value(r.p_value_z),
      Chi2      |-> Fmt(r.chi_square, 100),
      Chi2PValue |-> format_p_value(r.p_value_chi2) ] @@ ApaRowCommon(r)

\* for r in results_list: apa_results.append(apa_row); pd.DataFrame(apa_results)
create_apa_table_new(results_list) ==
    [i \in 1..Len(results_list) |-> ApaRowNew(results_list[i])]

\* the mutant of create_apa_table_updated: the rows in reverse
TableReversed(results_list) ==
    [i \in 1..Len(results_list) |-> ApaRowUpdated(results_list[Len(results_list) + 1 - i])]

create_apa_table_updated(results_list) ==
    [i \in 1..Len(results_list) |-> ApaRowUpdated(results_list[i])]

create_apa_table_proportion(results_list) ==
    [i \in 1..Len(results_list) |-> ApaRowProportion(results_list[i])]

---------------------------------------------------------------------------
(* proportion_analysis: compare_reasoning_non_reasoning_by_firm *)

\* an empty CSV cell, as pandas reads it
NaN == "NaN"

\* n1 = n2 = 200 of the main script
SampleSize == 200

\* the last non-empty value of col at or before i, NaN when there is none
LastValid(col, i) ==
    LET js == {j \in 1..i : col[j] # NaN}
    IN  IF js = {} THEN NaN ELSE col[CHOOSE j \in js : \A k \in js : k <= j]

\* the mutant of FillStudy: the column left as read
NoFill(d) == d

\* df['study'].fillna(method='ffill')
FillStudy(d) == [i \in 1..Len(d) |-> [d[i] EXCEPT !.study = LastValid([j \in 1..Len(d) |-> d[j].study], i)]]

\* Series.unique(): the values in order of first appearance
RECURSIVE UniqueFrom(_, _, _)
UniqueFrom(col, i, acc) ==
    IF i > Len(col) THEN acc
    ELSE UniqueFrom(col, i + 1,
                    IF \E j \in 1..Len(acc) : acc[j] = col[i] THEN acc
                    ELSE Append(acc, col[i]))

Unique(col) == UniqueFrom(col, 1, <<>>)

\* df[(df['study'] == study) & (df['firm'] == firm)]; NaN equals nothing
StudyFirmRows(d, study, firm) ==
    SelectSeq(d, LAMBDA r : r.study # NaN /\ study # NaN /\ r.study = study
                            /\ r.firm # NaN /\ firm # NaN /\ r.firm = firm)

WithCapability(rows, capability) == SelectSeq(rows, LAMBDA r : r.capability = capability)

Metrics == <<"overall_accuracy", "truth_bias">>

\* f"{study}: {firm} ({r_model} vs {nr_model}) - {metric}"
StudyName(study, firm, r_model, nr_model, metric) ==
    [study |-> study, firm |-> firm, r_model |-> r_model, nr_model |-> nr_model,
     metric |-> metric]

\* the body of the loop for one study and firm: the calls of
\* analyze_proportion_comparison it makes, in order, each with what it gives
CombinationCalls(d, study, firm, n1, n2) ==
    LET study_firm_df     == StudyFirmRows(d, study, firm)
        reasoning_row     == WithCapability(study_firm_df, "reasoning")
        non_reasoning_row == WithCapability(study_firm_df, "non-reasoning")
    IN  IF Len(study_firm_df) >= 2
           /\ Len(reasoning_row) > 0 /\ Len(non_reasoning_row) > 0
        THEN [m \in 1..Len(Metrics) |->
                analyze_proportion(reasoning_row[1][Metrics[m]],
                                   non_reasoning_row[1][Metrics[m]], n1, n2,
                                   StudyName(study, firm, reasoning_row[1].model,
                                             non_reasoning_row[1].model, Metrics[m]),
                                   TRUE)]
        ELSE <<>>

\* for study in studies: for firm in firms: the (study, firm) pairs in loop order
Combinations(studies, firms) ==
    [k \in 1..(Len(studies) * Len(firms)) |->
        <<studies[((k - 1) \div Len(firms)) + 1], firms[((k - 1) % Len(firms)) + 1]>>]

\* the calls of the whole loop, from combination k on
RECURSIVE LoopCalls(_, _, _, _, _)
LoopCalls(d, combos, k, n1, n2) ==
    IF k > Len(combos) THEN <<>>
    ELSE CombinationCalls(d, combos[k][1], combos[k][2], n1, n2)
            \o LoopCalls(d, combos, k + 1, n1, n2)

\* the calls before the first one that raises
RECURSIVE Completed(_)
Completed(calls) ==
    IF calls = <<>> \/ IsException(Head(calls)) THEN <<>>
    ELSE <<Head(calls)>> \o Completed(Tail(calls))

\* the check left out: the function goes on to read whatever csv_path names
NeverMissing(exists) == FALSE

\* if not os.path.exists(csv_path): ... return []
FileMissing(exists) == ~exists

\* what the function ends with, given the calls its loop makes
LoopOutcome(calls, done) ==
    IF Len(done) < Len(calls)
    THEN [exception |-> calls[Len(done) + 1].exception, results |-> <<>>,
          read |-> TRUE, completed |-> done]
    ELSE [exception |-> "none", results |-> done, read |-> TRUE, completed |-> done]

\* from df['study'].fillna on, with d the DataFrame after the fill
CompareLoaded(d, n1, n2) ==
    \* the bound name stands for the list of calls, evaluated once
    LET Outcome(calls) == LoopOutcome(calls, Completed(calls))
    IN  Outcome(LoopCalls(d, Combinations(Unique([i \in 1..Len(d) |-> d[i].study]),
                                          Unique([i \in 1..Len(d) |-> d[i].firm])),
                          1, n1, n2))

\* compare_reasoning_non_reasoning_by_firm(csv_path, n1, n2): the list it
\* returns, or the exception it ends in with the comparisons completed before.
\* pd.read_csv of a path that does not exist raises FileNotFoundError.
compare_reasoning_non_reasoning_by_firm(exists, file, n1, n2) ==
    IF FileMissing(exists)
    THEN [exception |-> "none", results |-> <<>>, read |-> FALSE, completed |-> <<>>]
    ELSE IF ~exists
    THEN [exception |-> "FileNotFoundError", results |-> <<>>, read |-> FALSE,
          completed |-> <<>>]
    ELSE CompareLoaded(FillStudy(file), n1, n2)

---------------------------------------------------------------------------
(* proportion_analysis: the main script *)

output_file == "proportion_comparison_results-v1.csv"

\* a handler for one kind of exception only
CatchesZeroDivisionOnly(exception) == exception = "ZeroDivisionError"

\* except Exception: every exception the comparison can raise is caught
Catches(exception) == TRUE

\* "if results is not None": an empty list passes too
IsNotNone(list) == TRUE

\* if results: a non-empty list
Truthy(list) == list # <<>>

\* the individual results printed so far
PrintedResults == Cardinality({k \in 1..Len(printed) : printed[k][1] = "result"})

\* results = compare_reasoning_non_reasoning_by_firm(csv_path, n1, n2), inside
\* try, and the branch on "if results"
MainCompare ==
    /\ pc = "try"
    /\ \E out \in {compare_reasoning_non_reasoning_by_firm(csv_exists, df, SampleSize, SampleSize)} :
           /\ csv_read' = out.read
           /\ compared' = out.completed
           /\ raised' = out.exception
           /\ results' = out.results
           /\ pc' = IF out.exception # "none" THEN "except"
                    ELSE IF Truthy(out.results) THEN "print_results"
                    ELSE "no_results"
    /\ UNCHANGED <<csv_exists, df, printed, files_written, apa_table, csv_others>>

\* for result in results: print_results(result)
MainPrintResult ==
    /\ pc = "print_results"
    /\ PrintedResults < Len(results)
    /\ printed' = Append(printed, <<"result", results[PrintedResults + 1].study>>)
    /\ UNCHANGED <<csv_exists, df, pc, results, raised, files_written, csv_read,
                   compared, apa_table, csv_others>>

\* apa_table = create_apa_table(results); print(apa_table.to_string(index=False))
MainApaTable ==
    /\ pc = "print_results"
    /\ PrintedResults = Len(results)
    /\ apa_table' = create_apa_table_proportion(results)
    /\ printed' = Append(printed, <<"apa_table">>)
    /\ pc' = "save"
    /\ UNCHANGED <<csv_exists, df, results, raised, files_written, csv_read,
                   compared, csv_others>>

\* apa_table.to_csv(output_file, index=False)
MainSave ==
    /\ pc = "save"
    /\ files_written' = files_written \cup {output_file}
    /\ printed' = Append(printed, <<"saved">>)
    /\ pc' = "done"
    /\ UNCHANGED <<csv_exists, df, results, raised, csv_read, compared, apa_table,
                   csv_others>>

\* else: print("No results were generated. ...")
MainNoResults ==
    /\ pc = "no_results"
    /\ printed' = Append(printed, <<"no_results">>)
    /\ pc' = "done"
    /\ UNCHANGED <<csv_exists, df, results, raised, files_written, csv_read,
                   compared, apa_table, csv_others>>

\* except Exception as e: print(f"An error occurred: ..."); traceback.print_exc()
\* an exception the handler does not catch ends the script
MainExcept ==
    /\ pc = "except"
    /\ IF Catches(raised)
       THEN /\ printed' = Append(printed, <<"error", raised>>)
            /\ pc' = "done"
       ELSE /\ printed' = printed
            /\ pc' = "crashed"
    /\ UNCHANGED <<csv_exists, df, results, raised, files_written, csv_read,
                   compared, apa_table, csv_others>>

---------------------------------------------------------------------------
(* stats_analysis.py and tb-data-attempt.py *)

\* a dict is the sequence of its items in insertion order
Item(key, value) == [key |-> key, value |-> value]

\* the mutant of Keys: the keys in reverse
KeysReversed(d) == [i \in 1..Len(d) |-> d[Len(d) + 1 - i].key]

\* d.keys()
Keys(d) == [i \in 1..Len(d) |-> d[i].key]

\* d.values()
Values(d) == [i \in 1..Len(d) |-> d[i].value]

RECURSIVE SumOver(_, _)
\* np.sum of f over the indices S
SumOver(S, f) ==
    IF S = {} THEN 0
    ELSE LET i == CHOOSE j \in S : TRUE IN f[i] + SumOver(S \ {i}, f)

\* diff = x - y
Diff(x, y) == [i \in 1..Len(x) |-> x[i] - y[i]]

\* rank_biserial(x, y) of stats_analysis
rank_biserial(x, y) ==
    LET diff           == Diff(x, y)
        positive_ranks == Cardinality({i \in DOMAIN diff : diff[i] > 0})
        negative_ranks == Cardinality({i \in DOMAIN diff : diff[i] < 0})
        n              == positive_ranks + negative_ranks
    IN  IF n = 0 THEN R(0)
        ELSE Reduce(<<positive_ranks - negative_ranks, n>>)

\* scipy's rankdata of |d| over the non-zero differences, doubled to stay
\* whole: tied differences share the average of their ranks
Rank2(diff, D) ==
    [i \in D |-> 2 * Cardinality({j \in D : Abs(diff[j]) < Abs(diff[i])})
                 + Cardinality({j \in D : Abs(diff[j]) = Abs(diff[i])}) + 1]

\* scipy.stats.wilcoxon(x, y): zero differences are dropped, the statistic is
\* the smaller of the two signed rank sums, and the two-sided p-value is read
\* from the distribution of the rank sum over the 2^n assignments of signs
wilcoxon(x, y) ==
    LET diff   == Diff(x, y)
        D      == {i \in DOMAIN diff : diff[i] # 0}
        rank2  == Rank2(diff, D)
        r_plus == SumOver({i \in D : diff[i] > 0}, rank2)
        r_minus == SumOver({i \in D : diff[i] < 0}, rank2)
        w2     == Min(r_plus, r_minus)
        count  == Cardinality({S \in SUBSET D : SumOver(S, rank2) <= w2})
    IN  [ statistic |-> Reduce(<<w2, 2>>),
          pvalue    |-> RMin(Reduce(<<2 * count, 2 ^ Cardinality(D)>>), R(1)) ]

\* the default alpha of multipletests
Alpha == <<1, 20>>

\* statsmodels' multipletests(pvals, method='bonferroni'):
\* (reject, pvals_corrected, ...)
multipletests(pvals) ==
    LET ntests == Len(pvals)
    IN  [ reject          |-> [i \in 1..ntests |-> ~RLess(RDiv(Alpha, R(ntests)), pvals[i])],
          pvals_corrected |-> [i \in 1..ntests |-> RMin(RMul(pvals[i], R(ntests)), R(1))] ]

\* the scores of the scripts, in hundredths
neutral == <<5750, 9400, 6650, 9250, 9450, 7950, 6000, 9936>>

veracity == <<4950, 9500, 2900, 6900, 9300, 6550, 5350, 9716>>

base_rate == <<5650, 7650, 3900, 7450, 8500, 5550, 5250, 6667>>

\* wilcoxon_results of stats_analysis; the three calls of comparisons in
\* tb-data-attempt take the same samples under the same names
wilcoxon_results(s) ==
    << Item("neutral_vs_veracity", <<s.neutral, s.veracity>>),
       Item("neutral_vs_base_rate", <<s.neutral, s.base_rate>>),
       Item("veracity_vs_base_rate", <<s.veracity, s.base_rate>>) >>

\* f"{x:.4f}"
Fmt4(x) == Fmt(x, 10000)

\* the corrected lines printed so far
CorrectedLines == SelectSeq(st_printed, LAMBDA l : l.section = "corrected")

\* stats_analysis: one pass of the loop over wilcoxon_results.items()
StatsWilcoxon ==
    /\ st_script = "stats_analysis" /\ st_pc = "wilcoxon"
    /\ \E item \in {wilcoxon_results(st_samples)[Len(st_outputs) + 1]} :
       \E result \in {wilcoxon(item.value[1], item.value[2])} :
       \E rb \in {rank_biserial(item.value[1], item.value[2])} :
          /\ st_outputs' = Append(st_outputs, Item(item.key, [result |-> result, rb |-> rb]))
          /\ st_p_values' = Append(st_p_values, result.pvalue)
          /\ st_printed' = Append(st_printed,
                [ section |-> "wilcoxon", name |-> item.key,
                  statistic |-> Fmt4(result.statistic), p |-> Fmt4(result.pvalue),
                  rank_biserial |-> Fmt4(rb) ])
    /\ st_pc' = IF Len(st_outputs) + 1 = Len(wilcoxon_results(st_samples))
                THEN "multipletests" ELSE "wilcoxon"
    /\ UNCHANGED <<st_script, st_samples, st_corrected, st_others>>

\* stats_analysis: corrected = multipletests(p_values, method='bonferroni')
StatsMultipletests ==
    /\ st_script = "stats_analysis" /\ st_pc = "multipletests"
    /\ st_corrected' = multipletests(st_p_values)
    /\ st_pc' = "print"
    /\ UNCHANGED <<st_script, st_samples, st_outputs, st_p_values, st_printed, st_others>>

\* stats_analysis: one pass of 'for i, name in enumerate(wilcoxon_outputs.keys())'
StatsPrintCorrected ==
    /\ st_script = "stats_analysis" /\ st_pc = "print"
    /\ \E i \in {Len(CorrectedLines) + 1} :
          /\ st_printed' = Append(st_printed,
                [ section |-> "corrected", name |-> Keys(st_outputs)[i],
                  corrected_p |-> Fmt4(st_corrected.pvals_corrected[i]),
                  significant |-> st_corrected.reject[i] ])
          /\ st_pc' = IF i = Len(st_outputs) THEN "done" ELSE "print"
    /\ UNCHANGED <<st_script, st_samples, st_outputs, st_p_values, st_corrected, st_others>>

\* tb-data-attempt: the dict display comparisons = {...}
TbComparisons ==
    /\ st_script = "tb-data-attempt" /\ st_pc = "comparisons"
    /\ \E calls \in {wilcoxon_results(st_samples)} :
          st_outputs' = [k \in 1..Len(calls) |->
                            Item(calls[k].key, wilcoxon(calls[k].value[1], calls[k].value[2]))]
    /\ st_pc' = "multipletests"
    /\ UNCHANGED <<st_script, st_samples, st_p_values, st_corrected, st_printed, st_others>>

\* tb-data-attempt: p_values = [result.pvalue for result in comparisons.values()]
\* and corrected = multipletests(p_values, method='bonferroni')
TbMultipletests ==
    /\ st_script = "tb-data-attempt" /\ st_pc = "multipletests"
    /\ \E p_values \in {[k \in 1..Len(st_outputs) |-> Values(st_outputs)[k].pvalue]} :
          /\ st_p_values' = p_values
          /\ st_corrected' = multipletests(p_values)
    /\ st_pc' = "print"
    /\ UNCHANGED <<st_script, st_samples, st_outputs, st_printed, st_others>>

\* tb-data-attempt: one pass of 'for i, (name, result) in enumerate(comparisons.items())'
TbPrint ==
    /\ st_script = "tb-data-attempt" /\ st_pc = "print"
    /\ \E i \in {Len(CorrectedLines) + 1} :
          /\ st_printed' = Append(st_printed,
                [ section |-> "corrected", name |-> st_outputs[i].key,
                  statistic |-> Fmt4(st_outputs[i].value.statistic),
                  p |-> Fmt4(st_outputs[i].value.pvalue),
                  corrected_p |-> Fmt4(st_corrected.pvals_corrected[i]),
                  significant |-> st_corrected.reject[i] ])
          /\ st_pc' = IF i = Len(st_outputs) THEN "done" ELSE "print"
    /\ UNCHANGED <<st_script, st_samples, st_outputs, st_p_values, st_corrected, st_others>>
---------------------------------------------------------------------------
(* run_comparison_set of updated_analysis *)

\* comparison_type=None
None == "<None>"

\* 'if comparison_type:' - None and the empty string are false
PyTruthy(v) == v # None /\ v # ""

\* key in d
HasKey(d, key) == \E k \in 1..Len(d) : d[k].key = key

\* d[key]
Get(d, key) == d[CHOOSE k \in 1..Len(d) : d[k].key = key].value

\* the f-strings of study_name, as the sequence of their pieces
RunStudyName(comparison_type, model1, model2, condition) ==
    IF PyTruthy(comparison_type)
    THEN <<comparison_type, ": ", model1, " vs ", model2, " (", condition, ")">>
    ELSE <<model1, " vs ", model2, " (", condition, ")">>

RECURSIVE ConditionLoop(_, _, _, _, _)
\* for condition in data_dict[model1].keys(): if condition in data_dict[model2]: ...
\* from the k-th condition of model1 on
ConditionLoop(data_dict, i, j, k, comparison_type) ==
    IF k > Len(data_dict[i].value) THEN <<>>
    ELSE LET condition == Keys(data_dict[i].value)[k]
         IN  (IF HasKey(data_dict[j].value, condition)
              THEN << [ p1 |-> Get(data_dict[i].value, condition),
                        p2 |-> Get(data_dict[j].value, condition),
                        study_name |-> RunStudyName(comparison_type, data_dict[i].key,
                                                    data_dict[j].key, condition) ] >>
              ELSE <<>>)
             \o ConditionLoop(data_dict, i, j, k + 1, comparison_type)

RECURSIVE ModelLoop(_, _, _, _)
\* for i in range(len(models)): for j in range(i+1, len(models)): ...
\* from the pair (i, j) on
ModelLoop(data_dict, i, j, comparison_type) ==
    IF i > Len(data_dict) THEN <<>>
    ELSE IF j > Len(data_dict) THEN ModelLoop(data_dict, i + 1, i + 2, comparison_type)
    ELSE ConditionLoop(data_dict, i, j, 1, comparison_type)
            \o ModelLoop(data_dict, i, j + 1, comparison_type)

\* run_comparison_set(data_dict, sample_sizes, comparison_type): the list it
\* returns, or the exception of the first comparison that raises
run_comparison_set(data_dict, sample_sizes, comparison_type) ==
    LET n1 == sample_sizes[1]
        n2 == sample_sizes[2]
        Run(comparisons) ==
            [k \in 1..Len(comparisons) |->
                analyze_updated(comparisons[k].p1, comparisons[k].p2, n1, n2,
                                comparisons[k].study_name, FALSE)]
        Outcome(calls, done) ==
            IF Len(done) < Len(calls)
            THEN [called |-> TRUE, exception |-> calls[Len(done) + 1].exception,
                  results |-> <<>>]
            ELSE [called |-> TRUE, exception |-> "none", results |-> done]
        Return(calls) == Outcome(calls, Completed(calls))
    IN  Return(Run(ModelLoop(data_dict, 1, 2, comparison_type)))
---------------------------------------------------------------------------
(* The state of a part of the program that a specification does not run *)

NotCalled == [called |-> FALSE]

IdleAnalyze ==
    /\ a_p1 = <<0, 1>> /\ a_p2 = <<0, 1>> /\ a_n1 = 1 /\ a_n2 = 1 /\ a_np = FALSE
    /\ out_new = NotCalled /\ out_updated = NotCalled /\ out_proportion = NotCalled

IdleCsv ==
    /\ csv_exists = FALSE /\ df = <<>> /\ pc = "idle" /\ results = <<>>
    /\ raised = "none" /\ printed = <<>> /\ files_written = {} /\ csv_read = FALSE
    /\ compared = <<>> /\ apa_table = <<>>


IdleStats ==
    /\ st_script = "none" /\ st_samples = <<>> /\ st_pc = "idle" /\ st_outputs = <<>>
    /\ st_p_values = <<>> /\ st_corrected = NotCalled /\ st_printed = <<>>

IdleApa ==
    /\ apa_inputs = <<>> /\ apa_new = NotCalled /\ apa_updated = NotCalled
    /\ apa_proportion = NotCalled

IdleRun ==
    /\ run_data_dict = <<>> /\ run_sample_sizes = <<1, 1>> /\ run_comparison_type = None
    /\ run_out = NotCalled

IdleLabel == lb_abs_h = 0 /\ lb_chain = NotCalled /\ lb_lookup = NotCalled

IdleFormat ==
    /\ fp_p = 0 /\ fp_new = NotCalled /\ fp_updated = NotCalled
    /\ fp_proportion = NotCalled
---------------------------------------------------------------------------
(* Calls of the three copies on one input *)

Proportions == {Reduce(<<(100 * k) \div PGrid, 100>>) : k \in 0..PGrid}

InitAnalyze ==
    /\ a_p1 \in Proportions
    /\ a_p2 \in Proportions
    /\ a_n1 \in 1..MaxN
    /\ a_n2 \in 1..MaxN
    /\ a_np \in BOOLEAN
    /\ out_new = NotCalled
    /\ out_updated = NotCalled
    /\ out_proportion = NotCalled
    /\ IdleCsv /\ IdleStats /\ IdleApa /\ IdleRun /\ IdleLabel /\ IdleFormat

CallNew ==
    /\ out_new = NotCalled
    /\ out_new' = analyze_new(a_p1, a_p2, a_n1, a_n2, "", a_np)
    /\ UNCHANGED <<a_p1, a_p2, a_n1, a_n2, a_np, out_updated, out_proportion, an_others>>

CallUpdated ==
    /\ out_updated = NotCalled
    /\ out_updated' = analyze_updated(a_p1, a_p2, a_n1, a_n2, "", a_np)
    /\ UNCHANGED <<a_p1, a_p2, a_n1, a_n2, a_np, out_new, out_proportion, an_others>>

CallProportion ==
    /\ out_proportion = NotCalled
    /\ out_proportion' = analyze_proportion(a_p1, a_p2, a_n1, a_n2, "", a_np)
    /\ UNCHANGED <<a_p1, a_p2, a_n1, a_n2, a_np, out_new, out_updated, an_others>>

NextAnalyze == CallNew \/ CallUpdated \/ CallProportion

SpecAnalyze == InitAnalyze /\ [][NextAnalyze]_vars

---------------------------------------------------------------------------
(* The proportion_analysis main script on a CSV file *)

NamedStudies == {"S1", "S2"}

Firms == {"A", "B"}

Capabilities == {"reasoning", "non-reasoning", "other"}

\* the (overall_accuracy, truth_bias) of a row
MetricPairs == { <<<<1, 2>>, <<1, 2>>>>, <<<<1, 2>>, <<0, 1>>>> }

\* a row of a CSV file; the model column names the row
Row(i, study, firm, capability, metrics) ==
    [study |-> study, firm |-> firm, capability |-> capability, model |-> i,
     overall_accuracy |-> metrics[1], truth_bias |-> metrics[2]]

RowChoices == (NamedStudies \cup {NaN}) \X Firms \X Capabilities \X MetricPairs

\* csv_exists: whether the path the script settles on (one of possible_paths,
\* or the one typed in) exists; df: the rows of that file
Init ==
    /\ csv_exists \in BOOLEAN
    /\ \E n \in 0..MaxRows : \E c \in [1..n -> RowChoices] :
          /\ csv_exists \/ n = 0
          /\ df = [i \in 1..n |-> Row(i, c[i][1], c[i][2], c[i][3], c[i][4])]
    /\ pc = "try"
    /\ results = <<>>
    /\ raised = "none"
    /\ printed = <<>>
    /\ files_written = {}
    /\ csv_read = FALSE
    /\ compared = <<>>
    /\ apa_table = <<>>
    /\ IdleAnalyze /\ IdleStats /\ IdleApa /\ IdleRun /\ IdleLabel /\ IdleFormat

Next ==
    \/ MainCompare
    \/ MainPrintResult
    \/ MainApaTable
    \/ MainSave
    \/ MainNoResults
    \/ MainExcept

Spec == Init /\ [][Next]_vars

---------------------------------------------------------------------------
(* The Wilcoxon scripts run on their data *)

\* samples of MaxPairs scores
Scores == [1..MaxPairs -> 0..MaxScore]

\* the scripts' own samples, and small samples in their place; the samples of
\* two conditions always differ somewhere, as the scripts' do
SampleChoices ==
    {[neutral |-> neutral, veracity |-> veracity, base_rate |-> base_rate]}
    \cup {s \in [neutral : Scores, veracity : Scores, base_rate : Scores] :
             /\ s.neutral # s.veracity
             /\ s.neutral # s.base_rate
             /\ s.veracity # s.base_rate}

InitStats ==
    /\ st_script \in {"stats_analysis", "tb-data-attempt"}
    /\ st_samples \in SampleChoices
    /\ st_pc = IF st_script = "stats_analysis" THEN "wilcoxon" ELSE "comparisons"
    /\ st_outputs = <<>>
    /\ st_p_values = <<>>
    /\ st_corrected = NotCalled
    /\ st_printed = <<>>
    /\ IdleAnalyze /\ IdleCsv /\ IdleApa /\ IdleRun /\ IdleLabel /\ IdleFormat

NextStats ==
    \/ StatsWilcoxon
    \/ StatsMultipletests
    \/ StatsPrintCorrected
    \/ TbComparisons
    \/ TbMultipletests
    \/ TbPrint

SpecStats == InitStats /\ [][NextStats]_vars
---------------------------------------------------------------------------
(* create_apa_table, called in its three copies on one results_list *)

\* the comparisons the results of results_list come from: one of each
\* effect size, under two study names
ApaComparisons ==
    { [p1 |-> pp[1], p2 |-> pp[2], study_name |-> s] :
        pp \in { <<<<1, 2>>, <<1, 2>>>>, <<<<1, 2>>, <<2, 5>>>>,
                 <<<<1, 2>>, <<1, 4>>>>, <<<<3, 4>>, <<1, 4>>>> },
        s \in NamedStudies }

\* results_list as the main scripts build it: one call of the copy's own
\* analyze_proportion_comparison per comparison
ResultsNew(inputs) ==
    [i \in 1..Len(inputs) |->
        analyze_new(inputs[i].p1, inputs[i].p2, SampleSize, SampleSize,
                    inputs[i].study_name, FALSE)]

ResultsUpdated(inputs) ==
    [i \in 1..Len(inputs) |->
        analyze_updated(inputs[i].p1, inputs[i].p2, SampleSize, SampleSize,
                        inputs[i].study_name, FALSE)]

ResultsProportion(inputs) ==
    [i \in 1..Len(inputs) |->
        analyze_proportion(inputs[i].p1, inputs[i].p2, SampleSize, SampleSize,
                           inputs[i].study_name, TRUE)]

InitApa ==
    /\ \E n \in 0..MaxResults : apa_inputs \in [1..n -> ApaComparisons]
    /\ apa_new = NotCalled
    /\ apa_updated = NotCalled
    /\ apa_proportion = NotCalled
    /\ IdleAnalyze /\ IdleCsv /\ IdleStats /\ IdleRun /\ IdleLabel /\ IdleFormat

ApaNew ==
    /\ apa_new = NotCalled
    /\ apa_new' = [called |-> TRUE, table |-> create_apa_table_new(ResultsNew(apa_inputs))]
    /\ UNCHANGED <<apa_inputs, apa_updated, apa_proportion, apa_others>>

ApaUpdated ==
    /\ apa_updated = NotCalled
    /\ apa_updated' = [called |-> TRUE,
                       table |-> create_apa_table_updated(ResultsUpdated(apa_inputs))]
    /\ UNCHANGED <<apa_inputs, apa_new, apa_proportion, apa_others>>

ApaProportion ==
    /\ apa_proportion = NotCalled
    /\ apa_proportion' = [called |-> TRUE,
                          table |-> create_apa_table_proportion(ResultsProportion(apa_inputs))]
    /\ UNCHANGED <<apa_inputs, apa_new, apa_updated, apa_others>>

NextApa == ApaNew \/ ApaUpdated \/ ApaProportion

SpecApa == InitApa /\ [][NextApa]_vars
---------------------------------------------------------------------------
(* run_comparison_set, called once *)

\* the model names of the script's data, in its order
ModelNames == <<"OAI_o3", "OAI_41", "ANT_37", "ANT_35", "DS_r1", "DS_v3">>

Conditions == {"oa", "tb"}

\* the proportions a condition may hold
RunProportions == { <<0, 1>>, <<1, 2>> }

\* the dicts of one model: its conditions in any order, each at most once
ConditionDicts ==
    { d \in UNION { [1..n -> Conditions \X RunProportions] : n \in 0..Cardinality(Conditions) } :
        \A k, l \in 1..Len(d) : k # l => d[k][1] # d[l][1] }

InitRun ==
    /\ \E n \in 0..MaxModels : \E c \in [1..n -> ConditionDicts] :
          run_data_dict =
              [i \in 1..n |->
                  Item(ModelNames[i], [k \in 1..Len(c[i]) |-> Item(c[i][k][1], c[i][k][2])])]
    /\ run_sample_sizes = <<SampleSize, SampleSize>>
    /\ run_comparison_type \in {None, "", "Study 3"}
    /\ run_out = NotCalled
    /\ IdleAnalyze /\ IdleCsv /\ IdleStats /\ IdleApa /\ IdleLabel /\ IdleFormat

RunComparisonSet ==
    /\ run_out = NotCalled
    /\ \E out \in {run_comparison_set(run_data_dict, run_sample_sizes, run_comparison_type)} :
          run_out' = out
    /\ UNCHANGED <<run_data_dict, run_sample_sizes, run_comparison_type, run_others>>

NextRun == RunComparisonSet

SpecRun == InitRun /\ [][NextRun]_vars
---------------------------------------------------------------------------
(* The effect size label, taken by both copies' code for one |h| *)

\* the largest |cohens_h|: proportions 1 and 0
MaxAbsH == Abs(CohensH(<<1, 1>>, <<0, 1>>))

InitLabel ==
    /\ lb_abs_h \in 0..MaxAbsH
    /\ lb_chain = NotCalled
    /\ lb_lookup = NotCalled
    /\ IdleAnalyze /\ IdleCsv /\ IdleStats /\ IdleApa /\ IdleRun /\ IdleFormat

\* new_analysis: the if / elif chain
LabelChain ==
    /\ lb_chain = NotCalled
    /\ lb_chain' = [called |-> TRUE, effect_size |-> EffectSizeChain(lb_abs_h)]
    /\ UNCHANGED <<lb_abs_h, lb_lookup, lb_others>>

\* updated_analysis, proportion_analysis: the lookup in effect_size_thresholds
LabelLookup ==
    /\ lb_lookup = NotCalled
    /\ lb_lookup' = [called |-> TRUE, effect_size |-> EffectSizeLookup(lb_abs_h)]
    /\ UNCHANGED <<lb_abs_h, lb_chain, lb_others>>

NextLabel == LabelChain \/ LabelLookup

SpecLabel == InitLabel /\ [][NextLabel]_vars
---------------------------------------------------------------------------
(* The p-value text, made by the three copies for one p *)

\* the p-values, 0 to 1 in units of 1e-4
PValues == 0..NormTwoSidedTable[1]

InitFormat ==
    /\ fp_p \in PValues
    /\ fp_new = NotCalled
    /\ fp_updated = NotCalled
    /\ fp_proportion = NotCalled
    /\ IdleAnalyze /\ IdleCsv /\ IdleStats /\ IdleApa /\ IdleRun /\ IdleLabel

\* new_analysis.create_apa_table: the inline chain
FormatNew ==
    /\ fp_new = NotCalled
    /\ fp_new' = [called |-> TRUE, text |-> FormatPInline(fp_p)]
    /\ UNCHANGED <<fp_p, fp_updated, fp_proportion, fp_others>>

\* updated_analysis.create_apa_table: format_p_value
FormatUpdated ==
    /\ fp_updated = NotCalled
    /\ fp_updated' = [called |-> TRUE, text |-> format_p_value(fp_p)]
    /\ UNCHANGED <<fp_p, fp_new, fp_proportion, fp_others>>

\* proportion_analysis.create_apa_table: format_p_value
FormatProportion ==
    /\ fp_proportion = NotCalled
    /\ fp_proportion' = [called |-> TRUE, text |-> format_p_value(fp_p)]
    /\ UNCHANGED <<fp_p, fp_new, fp_updated, fp_others>>

NextFormat == FormatNew \/ FormatUpdated \/ FormatProportion

SpecFormat == InitFormat /\ [][NextFormat]_vars
---------------------------------------------------------------------------
(* Claims about analyze_proportion_comparison *)

ResultKeys ==
    {"study", "group1_prop", "group2_prop", "difference", "z_statistic",
     "p_value_z", "z_ci_lower", "z_ci_upper", "cohens_h", "effect_size",
     "chi_square", "p_value_chi2"}

Called(o) == o # NotCalled

ReturnsAllStatistics(o) == Called(o) => (~IsException(o) /\ DOMAIN o = ResultKeys)

\* C2: for every p1, p2 in [0, 1] and positive n1, n2, each copy of
\* analyze_proportion_comparison returns the dictionary of all twelve
\* statistics and does not end in an error.
C2_AlwaysReturnsDict ==
    /\ ReturnsAllStatistics(out_new)
    /\ ReturnsAllStatistics(out_updated)
    /\ ReturnsAllStatistics(out_proportion)

\* p * n is a whole number
Whole(p, n) == RMul(p, R(n))[2] = 1

SharedFields == {"difference", "z_statistic", "z_ci_lower", "z_ci_upper",
                 "cohens_h", "effect_size"}

SameOutcome(o1, o2) ==
    IF IsException(o1) \/ IsException(o2)
    THEN IsException(o1) /\ IsException(o2) /\ o1.exception = o2.exception
    ELSE \A k \in SharedFields : o1[k] = o2[k]

AllCalled == Called(out_new) /\ Called(out_updated) /\ Called(out_proportion)

\* C6: on every input whose p1*n1 and p2*n2 are whole numbers the three copies
\* agree: they return the same difference, z_statistic, z_ci_lower,
\* z_ci_upper, cohens_h and effect_size label (or all three end in the same
\* error).
C6_CopiesAgree ==
    (AllCalled /\ Whole(a_p1, a_n1) /\ Whole(a_p2, a_n2))
        => /\ SameOutcome(out_new, out_updated)
           /\ SameOutcome(out_new, out_proportion)

\* the three copies have returned on whole counts with unequal sample sizes,
\* and the chi-square (which C6 leaves out) does differ between them
C6_Witness ==
    /\ AllCalled /\ Whole(a_p1, a_n1) /\ Whole(a_p2, a_n2)
    /\ a_n1 # a_n2 /\ a_p1 # a_p2
    /\ ~IsException(out_new) /\ ~IsException(out_updated) /\ ~IsException(out_proportion)
    /\ out_new.chi_square # out_proportion.chi_square

---------------------------------------------------------------------------
(* Claims about compare_reasoning_non_reasoning_by_firm and the main script *)

\* compare_reasoning_non_reasoning_by_firm has ended, by return or by exception
CompareEnded == pc \notin {"idle", "try"}

\* the rows of the file grouped under study s and firm f, by row number
GroupRows(s, f) ==
    {i \in 1..Len(df) : FillStudy(df)[i].study = s /\ df[i].firm = f}

RowsOf(s, f, capability) == {i \in GroupRows(s, f) : df[i].capability = capability}

First(rows) == CHOOSE i \in rows : \A j \in rows : i <= j

\* the (study, firm) combinations with a reasoning and a non-reasoning row
Qualifying ==
    {c \in NamedStudies \X Firms :
        RowsOf(c[1], c[2], "reasoning") # {} /\ RowsOf(c[1], c[2], "non-reasoning") # {}}

\* result r compares, for metric m, the first reasoning row of combination c
\* (group 1) against its first non-reasoning row (group 2)
ComparesFirstRows(r, c, m) ==
    LET g1 == df[First(RowsOf(c[1], c[2], "reasoning"))]
        g2 == df[First(RowsOf(c[1], c[2], "non-reasoning"))]
    IN  /\ r.study = StudyName(c[1], c[2], g1.model, g2.model, m)
        /\ r.group1_prop = g1[m]
        /\ r.group2_prop = g2[m]

PairwiseResults(list) ==
    /\ Len(list) = 2 * Cardinality(Qualifying)
    /\ \A c \in Qualifying : \A m \in {"overall_accuracy", "truth_bias"} :
          Cardinality({k \in 1..Len(list) : ComparesFirstRows(list[k], c, m)}) = 1
    /\ \A k \in 1..Len(list) :
          <<list[k].study.study, list[k].study.firm>> \in Qualifying

\* C1: compare_reasoning_non_reasoning_by_firm returns a list with exactly two
\* results (overall_accuracy, truth_bias) for every (study, firm) combination
\* that has a reasoning and a non-reasoning row, each comparing the first
\* reasoning row with the first non-reasoning row, and nothing for any other
\* combination: 2 x (number of qualifying combinations) results.
C1_TwoResultsPerQualifyingCombination ==
    CompareEnded => (raised = "none" /\ PairwiseResults(results))

\* the same, for the runs in which no comparison raises
C1_WhenNoComparisonRaises ==
    (CompareEnded /\ raised = "none") => PairwiseResults(results)

\* C3: when csv_path does not exist the function returns an empty list, raises
\* nothing, reads no file and runs no comparison.
C3_MissingFileReturnsEmpty ==
    (CompareEnded /\ ~csv_exists)
        => /\ raised = "none"
           /\ results = <<>>
           /\ ~csv_read
           /\ compared = <<>>
           /\ pc # "except"

\* the function has returned for a path that does not exist
C3_Witness == ~csv_exists /\ pc = "no_results"

\* C4: an exception raised inside compare_reasoning_non_reasoning_by_firm is
\* caught by the try/except of the main script: the error message is printed
\* and nothing else, the script ends without the exception propagating, and no
\* detailed result, no APA table and no output file is produced, also when
\* earlier comparisons of the batch succeeded.
C4_ExceptionCaughtNothingProduced ==
    (raised # "none")
        => /\ pc \in {"except", "done"}
           /\ files_written = {}
           /\ apa_table = <<>>
           /\ results = <<>>
           /\ printed = (IF pc = "done" THEN << <<"error", raised>> >> ELSE <<>>)

\* the script has ended after a comparison raised, an earlier one having succeeded
C4_Witness == pc = "done" /\ raised # "none" /\ compared # <<>>

\* what is printed by the time the file is saved: every result, in order,
\* then the APA table, then the line that names the file
PrintedBeforeSave ==
    [k \in 1..Len(results) |-> <<"result", results[k].study>>]
        \o << <<"apa_table">>, <<"saved">> >>

\* C5: the main script writes proportion_comparison_results-v1.csv if and only
\* if the comparison routine returned a non-empty list, and only after every
\* result and the APA table have been printed; on an empty list it prints the
\* 'No results were generated' message and writes no file.  No other file is
\* written.
C5_OutputFileIffResults ==
    /\ files_written \subseteq {"proportion_comparison_results-v1.csv"}
    /\ files_written # {}
          => (raised = "none" /\ results # <<>> /\ printed = PrintedBeforeSave
              /\ apa_table = create_apa_table_proportion(results))
    /\ pc = "done"
          => /\ (files_written # {}) <=> (raised = "none" /\ results # <<>>)
             /\ (raised = "none" /\ results = <<>>)
                   => (printed = << <<"no_results">> >> /\ files_written = {})

\* the script has ended with the file written, for two results
C5_Witness == pc = "done" /\ files_written # {} /\ Len(results) = 2

---------------------------------------------------------------------------
(* Claims about the Wilcoxon scripts *)

\* the samples compared under a name: "<a>_vs_<b>" compares a with b
NamedSamples(name) ==
    CASE name = "neutral_vs_veracity"   -> <<st_samples.neutral, st_samples.veracity>>
      [] name = "neutral_vs_base_rate"  -> <<st_samples.neutral, st_samples.base_rate>>
      [] name = "veracity_vs_base_rate" -> <<st_samples.veracity, st_samples.base_rate>>

\* the rank-biserial correlation of the signed-rank test: the rank sum of the
\* positive differences minus that of the negative ones, over the total rank sum
RankSumCorrelation(x, y) ==
    LET diff    == Diff(x, y)
        D       == {i \in DOMAIN diff : diff[i] # 0}
        rank2   == Rank2(diff, D)
        r_plus  == SumOver({i \in D : diff[i] > 0}, rank2)
        r_minus == SumOver({i \in D : diff[i] < 0}, rank2)
    IN  IF D = {} THEN R(0) ELSE Reduce(<<r_plus - r_minus, r_plus + r_minus>>)

\* C7: rank_biserial(x, y) is the rank-biserial correlation of the Wilcoxon
\* signed-rank test on x and y: (rank sum of the positive differences minus
\* rank sum of the negative differences) / total rank sum of the non-zero
\* differences, for every pair of equal-length samples.
C7_RankBiserialIsRankSumCorrelation ==
    st_script = "stats_analysis" =>
        \A k \in 1..Len(st_outputs) :
            st_outputs[k].value.rb
                = RankSumCorrelation(NamedSamples(st_outputs[k].key)[1],
                                     NamedSamples(st_outputs[k].key)[2])

\* what rank_biserial does give: the share of positive differences minus the
\* share of negative ones among the non-zero differences
C7_SignCountCorrelation ==
    st_script = "stats_analysis" =>
        \A k \in 1..Len(st_outputs) :
            LET diff == Diff(NamedSamples(st_outputs[k].key)[1],
                             NamedSamples(st_outputs[k].key)[2])
                pos  == Cardinality({i \in DOMAIN diff : diff[i] > 0})
                neg  == Cardinality({i \in DOMAIN diff : diff[i] < 0})
            IN  RMul(st_outputs[k].value.rb, R(pos + neg)) = R(pos - neg)

ComparisonNames == <<"neutral_vs_veracity", "neutral_vs_base_rate", "veracity_vs_base_rate">>

\* the raw p-value of the comparison of that name
RawP(name) == wilcoxon(NamedSamples(name)[1], NamedSamples(name)[2]).pvalue

\* C8: in stats_analysis and tb-data-attempt the Bonferroni correction is
\* applied to exactly the three Wilcoxon p-values (neutral_vs_veracity,
\* neutral_vs_base_rate, veracity_vs_base_rate), and the i-th corrected
\* p-value and significance flag are printed under the name of the comparison
\* whose raw p-value was the i-th input of the correction.
C8_NamesAndCorrectedPValuesInStep ==
    /\ st_corrected # NotCalled =>
          /\ Len(st_p_values) = Len(ComparisonNames)
          /\ {RawP(ComparisonNames[i]) : i \in 1..Len(ComparisonNames)}
                = {st_p_values[i] : i \in 1..Len(st_p_values)}
          /\ Len(st_corrected.pvals_corrected) = Len(st_p_values)
    /\ \A i \in 1..Len(CorrectedLines) :
          /\ st_p_values[i] = RawP(CorrectedLines[i].name)
          /\ CorrectedLines[i].corrected_p
                = Fmt4(RMin(RMul(RawP(CorrectedLines[i].name), R(Len(ComparisonNames))), R(1)))
          /\ CorrectedLines[i].significant
                = ~RLess(RDiv(Alpha, R(Len(ComparisonNames))), RawP(CorrectedLines[i].name))
    /\ st_pc = "done" =>
          [i \in 1..Len(CorrectedLines) |-> CorrectedLines[i].name] \in
              {s \in [1..Len(ComparisonNames) -> {ComparisonNames[i] : i \in 1..Len(ComparisonNames)}] :
                  \A i, j \in 1..Len(ComparisonNames) : i # j => s[i] # s[j]}

\* a script has printed its three corrected lines, for comparisons whose raw
\* p-values all differ and whose flags differ
C8_Witness ==
    /\ st_pc = "done"
    /\ Len(CorrectedLines) = Len(ComparisonNames)
    /\ \A i, j \in 1..Len(st_p_values) : i # j => st_p_values[i] # st_p_values[j]
    /\ \E i, j \in 1..Len(CorrectedLines) :
          CorrectedLines[i].significant # CorrectedLines[j].significant
---------------------------------------------------------------------------
(* Claims about create_apa_table *)

\* the table has one row per result, in the order of results_list, with the
\* result's study and effect size
RowsFollow(out, results_list) ==
    out # NotCalled =>
        /\ Len(out.table) = Len(results_list)
        /\ \A i \in 1..Len(results_list) :
              /\ out.table[i].Study = results_list[i].study
              /\ out.table[i].EffectSize = results_list[i].effect_size
        /\ results_list = <<>> => out.table = <<>>

\* C9: create_apa_table returns a table with exactly one row per result
\* dictionary of results_list, in the order of results_list; each row's Study
\* is that result's study and its Effect size is that result's effect_size;
\* an empty list gives a table with no rows.
C9_OneRowPerResultInOrder ==
    /\ RowsFollow(apa_new, ResultsNew(apa_inputs))
    /\ RowsFollow(apa_updated, ResultsUpdated(apa_inputs))
    /\ RowsFollow(apa_proportion, ResultsProportion(apa_inputs))

\* the three copies have made their tables of a list of MaxResults results
\* that repeats a study and whose first two results differ in study and in
\* effect size
C9_Witness ==
    /\ apa_new # NotCalled /\ apa_updated # NotCalled /\ apa_proportion # NotCalled
    /\ Len(apa_inputs) = MaxResults
    /\ Len(apa_updated.table) = MaxResults
    /\ apa_updated.table[1].Study # apa_updated.table[2].Study
    /\ apa_updated.table[1].EffectSize # apa_updated.table[2].EffectSize
    /\ \E i \in 2..MaxResults : apa_updated.table[i].Study = apa_updated.table[1].Study
---------------------------------------------------------------------------
(* Claims about run_comparison_set *)

\* (i, j, k): models i < j, and the k-th condition of model i is one of model j's
SharedConditions ==
    { t \in (1..Len(run_data_dict)) \X (1..Len(run_data_dict)) \X (1..Cardinality(Conditions)) :
        /\ t[1] < t[2]
        /\ t[3] <= Len(run_data_dict[t[1]].value)
        /\ HasKey(run_data_dict[t[2]].value, run_data_dict[t[1]].value[t[3]].key) }

\* the order by (i, j, condition order of model i)
Before(u, t) ==
    \/ u[1] < t[1]
    \/ u[1] = t[1] /\ u[2] < t[2]
    \/ u[1] = t[1] /\ u[2] = t[2] /\ u[3] < t[3]

Position(t) == 1 + Cardinality({u \in SharedConditions : Before(u, t)})

\* the list is the comparisons of SharedConditions in order, model i as group
\* 1, each under the name Name(i, j, condition)
ListFollows(Name(_, _, _)) ==
    /\ run_out.exception = "none"
    /\ Len(run_out.results) = Cardinality(SharedConditions)
    /\ \A t \in SharedConditions :
          LET r         == run_out.results[Position(t)]
              model1    == run_data_dict[t[1]]
              model2    == run_data_dict[t[2]]
              condition == model1.value[t[3]].key
          IN  /\ r.study = Name(model1.key, model2.key, condition)
              /\ r.group1_prop = Get(model1.value, condition)
              /\ r.group2_prop = Get(model2.value, condition)

\* '<model1> vs <model2> (<condition>)', prefixed when comparison_type is given
NameWhenGiven(model1, model2, condition) ==
    IF run_comparison_type # None
    THEN <<run_comparison_type, ": ", model1, " vs ", model2, " (", condition, ")">>
    ELSE <<model1, " vs ", model2, " (", condition, ")">>

\* the same, with the prefix when comparison_type is neither None nor empty
NameWhenNonEmpty(model1, model2, condition) ==
    IF run_comparison_type # None /\ run_comparison_type # ""
    THEN <<run_comparison_type, ": ", model1, " vs ", model2, " (", condition, ")">>
    ELSE <<model1, " vs ", model2, " (", condition, ")">>

\* C10: run_comparison_set compares every pair of distinct models once per
\* condition both have, the model listed earlier as group 1; the returned
\* list has one result per (pair i < j, shared condition), ordered by (i, j,
\* condition order of model i), each study name being
\* '<model1> vs <model2> (<condition>)', prefixed by '<comparison_type>: '
\* when comparison_type is given.
C10_EveryPairEverySharedCondition ==
    run_out # NotCalled => ListFollows(NameWhenGiven)

\* what does hold: when no comparison raises, the list is as C10 says, the
\* prefix being there for a comparison_type that is neither None nor empty
C10_WhenNoComparisonRaises ==
    run_out # NotCalled /\ run_out.exception = "none" => ListFollows(NameWhenNonEmpty)

\* a comparison of run_comparison_set raises: both models hold the proportion
\* 0 for a shared condition
C10_ComparisonRaises ==
    run_out # NotCalled /\ run_out.exception # "none" /\ SharedConditions # {}
---------------------------------------------------------------------------
(* Claims about the effect size label *)

\* the label of the claim for |h| = abs_h, in units of 1e-4
LabelIs(label, abs_h) ==
    /\ label = "Negligible" <=> abs_h < 2000
    /\ label = "Small" <=> (2000 <= abs_h /\ abs_h < 5000)
    /\ label = "Medium" <=> (5000 <= abs_h /\ abs_h < 8000)
    /\ label = "Large" <=> abs_h >= 8000
    /\ label \in {"Negligible", "Small", "Medium", "Large"}

\* C11: the effect_size label is determined by |cohens_h| alone: Negligible
\* iff |h| < 0.2, Small iff 0.2 <= |h| < 0.5, Medium iff 0.5 <= |h| < 0.8,
\* Large iff |h| >= 0.8; exactly one label applies to every value, and the
\* if / elif chain of new_analysis and the threshold list of updated_analysis
\* and proportion_analysis give the same label for every |h|, the boundaries
\* 0.2, 0.5 and 0.8 included.
C11_LabelByThresholds ==
    /\ lb_chain # NotCalled => LabelIs(lb_chain.effect_size, lb_abs_h)
    /\ lb_lookup # NotCalled => LabelIs(lb_lookup.effect_size, lb_abs_h)
    /\ (lb_chain # NotCalled /\ lb_lookup # NotCalled)
          => lb_chain.effect_size = lb_lookup.effect_size

\* both ways have labelled |h| = 0.5, a boundary, Medium
C11_Witness ==
    /\ lb_abs_h = 5000
    /\ lb_chain # NotCalled /\ lb_lookup # NotCalled
    /\ lb_chain.effect_size = "Medium" /\ lb_lookup.effect_size = "Medium"
---------------------------------------------------------------------------
(* Claims about the filling of the study column *)

\* the study of the nearest row at or before row i whose study cell is not
\* empty; NaN when every cell up to row i is empty
NearestStudy(i) ==
    IF \A j \in 1..i : df[j].study = NaN THEN NaN
    ELSE df[CHOOSE j \in 1..i :
                /\ df[j].study # NaN
                /\ \A k \in (j + 1)..i : df[k].study = NaN].study

\* the rows grouped under study s and firm f with that capability, when every
\* row counts under its NearestStudy
RowsUnder(s, f, capability) ==
    {i \in 1..Len(df) :
        NearestStudy(i) = s /\ df[i].firm = f /\ df[i].capability = capability}

\* the rows (the model column holds the row number) that comparison r compares
RowsCompared(r) == {r.study.r_model, r.study.nr_model}

\* C12: before grouping, every empty study cell is filled with the previous
\* non-empty study value: a row with an empty study is grouped under the study
\* of the nearest preceding row with a non-empty study, a row with a non-empty
\* study keeps it, and rows before the first non-empty study stay without a
\* study and take part in no comparison.
C12_EmptyStudyTakesPreviousStudy ==
    (CompareEnded /\ csv_read) =>
        \* every comparison made is of two rows under the study it names
        /\ \A k \in 1..Len(compared) :
              /\ compared[k].study.study # NaN
              /\ \A i \in RowsCompared(compared[k]) :
                    NearestStudy(i) = compared[k].study.study
        \* rows without a study are in no comparison
        /\ \A i \in 1..Len(df) :
              NearestStudy(i) = NaN
                  => \A k \in 1..Len(compared) : i \notin RowsCompared(compared[k])
        \* rows with a study keep it
        /\ \A i \in 1..Len(df) : df[i].study # NaN => NearestStudy(i) = df[i].study
        \* when the function returns, every study and firm with a reasoning and
        \* a non-reasoning row under it has been compared, first rows taken
        /\ raised = "none" =>
              \A s \in NamedStudies, f \in Firms :
                  (RowsUnder(s, f, "reasoning") # {} /\ RowsUnder(s, f, "non-reasoning") # {})
                      => \E k \in 1..Len(results) :
                            /\ results[k].study.study = s
                            /\ results[k].study.firm = f
                            /\ results[k].study.r_model = First(RowsUnder(s, f, "reasoning"))
                            /\ results[k].study.nr_model = First(RowsUnder(s, f, "non-reasoning"))

\* the function has returned comparisons of a row whose study cell is empty,
\* from a file whose first row has no study to take
C12_Witness ==
    /\ CompareEnded /\ csv_read /\ raised = "none"
    /\ df # <<>> /\ df[1].study = NaN
    /\ \E k \in 1..Len(results) : \E i \in RowsCompared(results[k]) : df[i].study = NaN
---------------------------------------------------------------------------
(* Claims about the p-value text *)

\* text is 'p = ' followed by p to 3 decimals: a thousandth nearest to p
IsPToThreeDecimals(text, p) ==
    /\ Len(text) = 2
    /\ text[1] = "p = "
    /\ text[2] \in 0..(p \div 10 + 1)
    /\ 2 * Abs(10 * text[2] - p) <= 10

\* the text of the claim for p, in units of 1e-4
TextIs(text, p) ==
    /\ text = <<"p < .001">> <=> p < 10
    /\ text = <<"p < .01">> <=> (10 <= p /\ p < 100)
    /\ text = <<"p < .05">> <=> (100 <= p /\ p < 500)
    /\ IsPToThreeDecimals(text, p) <=> p >= 500
    /\ \/ text \in {<<"p < .001">>, <<"p < .01">>, <<"p < .05">>}
       \/ IsPToThreeDecimals(text, p)

FormatOutputs == {fp_new, fp_updated, fp_proportion}

\* C13: format_p_value maps a p-value to exactly one of four texts:
\* 'p < .001' iff p < 0.001, 'p < .01' iff 0.001 <= p < 0.01, 'p < .05' iff
\* 0.01 <= p < 0.05, and 'p = <p to 3 decimals>' iff p >= 0.05; the inline
\* formatting of new_analysis.create_apa_table gives the same text as the
\* format_p_value helper of updated_analysis and proportion_analysis.
C13_FourTextsSameInEveryCopy ==
    /\ \A o \in FormatOutputs : o # NotCalled => TextIs(o.text, fp_p)
    /\ \A o1, o2 \in FormatOutputs :
          (o1 # NotCalled /\ o2 # NotCalled) => o1.text = o2.text

\* the three copies have formatted p = 0.05, a boundary, as 'p = 0.050'
C13_Witness ==
    /\ fp_p = 500
    /\ \A o \in FormatOutputs : o # NotCalled /\ o.text = <<"p = ", 50>>
===========================================================================
